---- MODULE Spec2Model ----
(***************************************************************************)
(* A model of the DNSPod DNS-01 webhook solver (src/main.go).              *)
(*                                                                         *)
(* Five specifications share the module:                                   *)
(*   SpecName      extractRecordName applied to bounded FQDN / zone pairs  *)
(*   SpecConfig    loadConfig applied to bounded configuration documents   *)
(*   SpecSeq       Present / CleanUp invocations that do not overlap       *)
(*   Spec          Present / CleanUp invocations running concurrently      *)
(*   SpecRotation  Spec with one more invocation                           *)
(*                                                                         *)
(* Strings that the code inspects character by character (FQDN, zone,      *)
(* record name) are sequences of one-character strings.                    *)
(***************************************************************************)
EXTENDS Integers, Sequences, FiniteSets, TLC

VARIABLES
    nameIn,     \* SpecName: the (fqdn, zone) pair handed to extractRecordName
    nameOut,    \* SpecName: << >> before the call, <<result>> after it
    cfgIn,      \* SpecConfig: the *extapi.JSON handed to loadConfig
    cfgOut,     \* SpecConfig: << >> before the call, <<[cfg, err]>> after it
    pc,         \* per invocation slot: the position of its Present / CleanUp
    loc,        \* per invocation slot: the locals of its Present / CleanUp
    dnspod,     \* c.dnspod, the cache map: secretFQN -> cachedDnspodClient
    clients,    \* the *dnspod.Client instances built so far, in build order
    secrets,    \* the cluster's secret store: <<namespace, name>> -> Secret
    revision,   \* the cluster's resource version counter
    records,    \* the records at the DNS provider
    nextRecordID,   \* the identifier the provider gives the next record
    lastRet,    \* history: per cache key, what getDNSPod last returned
    started,    \* history: the number of invocations begun
    crashed     \* the Go runtime has stopped the process (fatal error)

pureVars == <<nameIn, nameOut, cfgIn, cfgOut>>
solverVars == <<pc, loc, dnspod, clients, secrets, revision, records,
                nextRecordID, lastRet, started, crashed>>
vars == <<pureVars, solverVars>>

----------------------------------------------------------------------------
(* Bounds of the model. *)

MaxFqdnLen == 6
MaxZoneLen == 2

Chars == {".", "a", "b"}

StringsUpTo(n) == UNION {[1..k -> Chars] : k \in 0..n}

\* Domain names as the host passes them: labels separated by single dots, with
\* or without the trailing dot.
DnsNames(n) ==
    {s \in StringsUpTo(n) :
        /\ Len(s) > 0
        /\ s[1] # "."
        /\ \A i \in 1..(Len(s) - 1) : ~(s[i] = "." /\ s[i + 1] = ".")}

----------------------------------------------------------------------------
(* Name computation, main.go:286-292. *)

\* strings.Index(s, t): the 0-based index of the first occurrence of t in s,
\* or -1.
Index(s, t) ==
    LET hits == {i \in 0..(Len(s) - Len(t)) : SubSeq(s, i + 1, i + Len(t)) = t}
    IN  IF hits = {} THEN -1
        ELSE CHOOSE i \in hits : \A j \in hits : i <= j

\* util.UnFqdn(name): name without one trailing dot.
UnFqdn(name) ==
    IF Len(name) # 0 /\ name[Len(name)] = "."
    THEN SubSeq(name, 1, Len(name) - 1)
    ELSE name

extractRecordName(fqdn, zone) ==
    LET idx == Index(fqdn, <<".">> \o zone)
    IN  IF idx # -1 THEN SubSeq(fqdn, 1, idx) ELSE UnFqdn(fqdn)

\* strings.HasSuffix, used to state the claims about the name computation.
HasSuffix(s, t) ==
    Len(t) <= Len(s) /\ SubSeq(s, Len(s) - Len(t) + 1, Len(s)) = t

----------------------------------------------------------------------------
(* Errors.  A Go error is modelled by its message, a sequence of text      *)
(* fragments; the nil error is the empty sequence.                         *)

NoErr == << >>

\* fmt.Errorf(prefix + "%v", err): the message of err behind a prefix.
Errorf(prefix, err) == <<prefix>> \o err

\* strings.Contains(err.Error(), fragment), for a fragment that no prefix
\* used by the solver contains.
Contains(err, fragment) == \E i \in 1..Len(err) : err[i] = fragment

----------------------------------------------------------------------------
(* Config decoder, main.go:56-78 and main.go:215-232.                      *)
(*                                                                         *)
(* A JSON value is a record [t, n, s, name, namespace]: t is its type      *)
(* ("absent" when the key is not in the document); n its number; s its     *)
(* string; name and namespace, for an object, are << >> when the key is    *)
(* missing and <<v>> when it is present with string value v.               *)

JAbsent == [t |-> "absent", n |-> 0, s |-> "", name |-> << >>, namespace |-> << >>]
JNull == [t |-> "null", n |-> 0, s |-> "", name |-> << >>, namespace |-> << >>]
JNum(v) == [t |-> "num", n |-> v, s |-> "", name |-> << >>, namespace |-> << >>]
JStr(v) == [t |-> "str", n |-> 0, s |-> v, name |-> << >>, namespace |-> << >>]
JObj(nm, ns) == [t |-> "obj", n |-> 0, s |-> "", name |-> nm, namespace |-> ns]

\* The *extapi.JSON argument: nil, or raw bytes that are malformed, the JSON
\* null, or a JSON object with the keys apiTokenSecret and ttl.
NilJSON == [kind |-> "nil", apiTokenSecret |-> JAbsent, ttl |-> JAbsent]
MalformedJSON == [kind |-> "malformed", apiTokenSecret |-> JAbsent, ttl |-> JAbsent]
NullJSON == [kind |-> "null", apiTokenSecret |-> JAbsent, ttl |-> JAbsent]
ObjectJSON(sec, ttl) == [kind |-> "object", apiTokenSecret |-> sec, ttl |-> ttl]

defaultTTL == 600

\* The keys encoding/json can set on an apiTokenSecretRef: the names of its
\* exported fields.  The struct's two fields, name and namespace, are
\* unexported, so there are none.
apiTokenSecretRefKeys == {}

\* Decoding a JSON value into the APITokenSecret field.
decodeSecretRef(ref, v) ==
    IF v.t = "obj"
    THEN [ref |-> [name |-> IF "name" \in apiTokenSecretRefKeys /\ v.name # << >>
                            THEN v.name[1] ELSE ref.name,
                   namespace |-> IF "namespace" \in apiTokenSecretRefKeys
                                     /\ v.namespace # << >>
                                 THEN v.namespace[1] ELSE ref.namespace],
          err |-> NoErr]
    ELSE IF v.t \in {"absent", "null"}
    THEN [ref |-> ref, err |-> NoErr]
    ELSE [ref |-> ref, err |-> <<"json: cannot unmarshal into apiTokenSecretRef">>]

\* Decoding a JSON value into the TTL field.
decodeTTL(ttl, v) ==
    IF v.t = "num" THEN [ttl |-> v.n, err |-> NoErr]
    ELSE IF v.t \in {"absent", "null"} THEN [ttl |-> ttl, err |-> NoErr]
    ELSE [ttl |-> ttl, err |-> <<"json: cannot unmarshal into int">>]

\* json.Unmarshal(raw, &cfg): a syntax error leaves cfg alone; a type error
\* is remembered (the first one) while the other keys are still decoded.
Unmarshal(doc, cfg) ==
    IF doc.kind = "malformed" THEN [cfg |-> cfg, err |-> <<"json: syntax error">>]
    ELSE IF doc.kind = "null" THEN [cfg |-> cfg, err |-> NoErr]
    ELSE LET sec == decodeSecretRef(cfg.APITokenSecret, doc.apiTokenSecret)
             ttl == decodeTTL(cfg.TTL, doc.ttl)
         IN  [cfg |-> [APITokenSecret |-> sec.ref, TTL |-> ttl.ttl],
              err |-> IF sec.err # NoErr THEN sec.err ELSE ttl.err]

loadConfig(cfgJSON) ==
    LET cfg == [APITokenSecret |-> [name |-> "dnspod-credentials",
                                    namespace |-> "default"],
                TTL |-> defaultTTL]
    IN  IF cfgJSON.kind = "nil" THEN [cfg |-> cfg, err |-> NoErr]
        ELSE LET r == Unmarshal(cfgJSON, cfg)
             IN  IF r.err # NoErr
                 THEN [cfg |-> r.cfg,
                       err |-> Errorf("error decoding solver config: ", r.err)]
                 ELSE [cfg |-> r.cfg, err |-> NoErr]

----------------------------------------------------------------------------
(* The solver's data.                                                      *)

\* The invocation slots: the goroutines on which the host runs Present and
\* CleanUp.
Procs == {"p1", "p2"}

MaxInvocations == 3
MaxOverlapping == 2
MaxRevision == 2

\* fmt.Sprintf("%d", n): the decimal digits of n.
RECURSIVE Itoa(_)
Itoa(n) ==
    LET digit(d) == <<"0", "1", "2", "3", "4", "5", "6", "7", "8", "9">>[d + 1]
    IN  IF n < 0 THEN <<"-">> \o Itoa(-n)
        ELSE IF n < 10 THEN <<digit(n)>>
        ELSE Itoa(n \div 10) \o <<digit(n % 10)>>

\* fmt.Sprintf("%s/%s", secretNS, secretName), the cache key.
secretFQN(cfg) == <<cfg.APITokenSecret.namespace, "/", cfg.APITokenSecret.name>>

\* The secret that Secrets(secretNS).Get(secretName) addresses.
secretRef(cfg) == <<cfg.APITokenSecret.namespace, cfg.APITokenSecret.name>>

\* cachedDnspodClient.  Client is 0 for the nil pointer, else the index of
\* the instance in clients; SecretVersion is 0 for the empty string.
ZeroCached == [Client |-> 0, SecretVersion |-> 0]

\* cached, ok := c.dnspod[key] when no assignment to the map is in progress.
Lookup(key) ==
    IF key \in DOMAIN dnspod
    THEN [ok |-> TRUE, Client |-> dnspod[key].Client,
          SecretVersion |-> dnspod[key].SecretVersion]
    ELSE [ok |-> FALSE, Client |-> 0, SecretVersion |-> 0]

\* c.dnspod[key] = e
Store(m, key, e) ==
    [k \in DOMAIN m \cup {key} |-> IF k = key THEN e ELSE m[k]]

\* A Secret: its ResourceVersion and its Data, in which id and token are
\* << >> when the key is missing and <<v>> when it is there.
Creds(i, t) == [id |-> i, token |-> t]
SecretData == {Creds(<<"id2">>, <<"tok2">>), Creds(<< >>, <<"tok1">>),
               Creds(<<"id1">>, << >>)}
ZeroSecret == [ResourceVersion |-> 0, Data |-> Creds(<< >>, << >>)]

SecretRefs == {<<"default", "dnspod-credentials">>, <<"cert-manager", "my-secret">>}

\* The challenge requests the host sends: v1alpha1.ChallengeRequest.
Challenge(zone, fqdn, key, config) ==
    [ResolvedZone |-> zone, ResolvedFQDN |-> fqdn, Key |-> key, Config |-> config]

NoChallenge == Challenge(<< >>, << >>, "", NilJSON)

Challenges ==
    {Challenge(<<"z", ".">>, <<"a", ".", "z", ".">>, "k1", NilJSON),
     Challenge(<<"z", ".">>, <<"a", ".", "z", ".">>, "k2", NilJSON),
     Challenge(<<"z", ".">>, <<"b", ".", "z", ".">>, "k1",
               ObjectJSON(JObj(<<"my-secret">>, <<"cert-manager">>), JNum(60))),
     Challenge(<<"y", ".">>, <<"a", ".", "y", ".">>, "k1", NilJSON),
     Challenge(<<"z", ".">>, <<"a", ".", "z", ".">>, "k1", MalformedJSON)}

\* The domains of the provider account, as Domains.List returns them.  ID is
\* a json.Number: << >> for the empty string, <<n>> for the digits of n.
ProviderDomains == <<[Name |-> <<"z">>, ID |-> <<7>>]>>
ZeroDomain == [Name |-> << >>, ID |-> << >>]

\* A record at the provider.  Origin is history: the challenge whose Present
\* created it, NoChallenge for a record that was there before.
Record(id, domain, name, value, ttl, origin) ==
    [ID |-> id, Domain |-> domain, Type |-> "TXT", Name |-> name, Value |-> value,
     Line |-> "default", TTL |-> ttl, Origin |-> origin]

PreExisting ==
    {Record(1, Itoa(7), <<"a">>, "k1", Itoa(600), NoChallenge),
     Record(2, Itoa(7), <<"a">>, "k2", Itoa(600), NoChallenge),
     Record(3, Itoa(7), <<"b">>, "k1", Itoa(600), NoChallenge)}

\* The locals of one invocation.  steps, read, built, raced, wraced, snap, listing and prev
\* are history: the steps taken so far, the cache entry that was read,
\* whether a client was built, whether a map access overlapped another
\* invocation's assignment, the provider's records when the invocation
\* began, and how the provider answered ListRecords.
InitLoc ==
    [op |-> "none", ch |-> NoChallenge,
     cfg |-> [APITokenSecret |-> [name |-> "", namespace |-> ""], TTL |-> 0],
     cached |-> [ok |-> FALSE, Client |-> 0, SecretVersion |-> 0],
     secret |-> ZeroSecret, client |-> 0, domainID |-> << >>, todo |-> << >>,
     err |-> NoErr, steps |-> << >>,
     read |-> [ok |-> FALSE, Client |-> 0, SecretVersion |-> 0],
     built |-> FALSE, raced |-> FALSE, wraced |-> FALSE, snap |-> {}, listing |-> "none",
     prev |-> ZeroCached]

Idle ==
    /\ pc = [p \in Procs |-> "idle"]
    /\ loc = [p \in Procs |-> InitLoc]
    /\ dnspod = << >>
    /\ clients = << >>
    /\ secrets = [k \in SecretRefs |->
                    [ResourceVersion |-> 1, Data |-> Creds(<<"id1">>, <<"tok1">>)]]
    /\ revision = 1
    /\ nextRecordID = Cardinality(PreExisting) + 1
    /\ lastRet = << >>
    /\ started = 0
    /\ crashed = FALSE

NoName == [fqdn |-> << >>, zone |-> << >>]

\* Initialize (main.go:169-178) has run: the cache map is empty.  The provider
\* holds any set of records.
Init ==
    /\ Idle
    /\ records \in SUBSET PreExisting
    /\ nameIn = NoName
    /\ nameOut = << >>
    /\ cfgIn = NilJSON
    /\ cfgOut = << >>

----------------------------------------------------------------------------
(* Helpers of the invocation steps.                                        *)

\* One entry of an invocation's step history.
Entry(step, arg, ok) == [step |-> step, arg |-> arg, ok |-> ok]

\* A step succeeded and the invocation goes on.
Ok(l, step, arg) == [l EXCEPT !.steps = Append(@, Entry(step, arg, TRUE))]

\* `if err != nil { return err }`: the locals when a step failed.
Fail(l, step, arg, err) ==
    [l EXCEPT !.err = err, !.steps = Append(@, Entry(step, arg, FALSE))]

\* A slip: a failed CreateRecord is tried again.
AfterFailureRetry(step) == IF step = "CreateRecord" THEN "createRecord" ELSE "done"

\* `if err != nil { return err }`: where the invocation goes when a step
\* failed.
AfterFailure(step) == "done"

\* The assignments to the cache map that other invocations have in progress.
Writers(p) == {q \in Procs \ {p} : pc[q] = "mapWriting"}

\* The entries those assignments are storing under key.
Pending(p, key) ==
    {loc[q].cached : q \in {w \in Writers(p) : secretFQN(loc[w].cfg) = key}}

\* A variant: a mutex is held for the time of an assignment to the map.
CacheAccessLocked(p) == \A q \in Procs \ {p} : pc[q] # "mapWriting"

\* getDNSPod takes no lock before c.dnspod[secretFQN] and before
\* c.dnspod[secretFQN] = cached: an invocation may access the map whatever
\* the other invocations are doing.
CacheAccessAllowed(p) == TRUE

\* cached, ok := c.dnspod[secretFQN].  While another invocation's assignment
\* to the map is in progress the read is a data race: ok and each word of the
\* value come from the map as it was or as that assignment leaves it.
ReadOutcomes(p) ==
    LET key == secretFQN(loc[p].cfg)
        seen == {Lookup(key)} \cup Pending(p, key)
    IN  {[ok |-> a.ok, Client |-> b.Client, SecretVersion |-> c.SecretVersion] :
            a \in seen, b \in seen, c \in seen}

\* c.dnspod[secretFQN] = cached.  An assignment that overlapped another
\* invocation's assignment to the same key is a data race: each word of the
\* stored value comes from either.
WriteOutcomes(p) ==
    LET key == secretFQN(loc[p].cfg)
        own == loc[p].cached
        seen == IF loc[p].wraced
                THEN {own} \cup Pending(p, key)
                        \cup (IF key \in DOMAIN dnspod THEN {Lookup(key)} ELSE {})
                ELSE {own}
    IN  {[Client |-> a.Client, SecretVersion |-> b.SecretVersion] :
            a \in seen, b \in seen}

\* A slip: the version of the cached entry is not compared.
mustRebuildIfMissing(ok, cachedVersion, secretVersion) == ~ok

\* `if !ok || cached.SecretVersion != secret.ResourceVersion` in getDNSPod.
mustRebuild(ok, cachedVersion, secretVersion) ==
    ~ok \/ cachedVersion # secretVersion

\* getDNSPod from the secret fetch to its return or to the map assignment.
\* fetchErr is the error of Secrets(secretNS).Get; n is the number of clients
\* built so far.  The result: the locals, where the invocation goes, and the
\* client instance built, if one was.
getDNSPodFetched(l, fetchErr, secret, n) ==
    IF fetchErr # NoErr
    THEN [loc |-> Fail(l, "getDNSPod", 0, fetchErr),
          pc |-> AfterFailure("getDNSPod"), built |-> << >>]
    ELSE IF mustRebuild(l.cached.ok, l.cached.SecretVersion, secret.ResourceVersion)
    THEN IF secret.Data.id = << >>
         THEN [loc |-> Fail([l EXCEPT !.secret = secret], "getDNSPod", 0,
                            <<"no id in secret">>),
               pc |-> AfterFailure("getDNSPod"), built |-> << >>]
         ELSE IF secret.Data.token = << >>
         THEN [loc |-> Fail([l EXCEPT !.secret = secret], "getDNSPod", 0,
                            <<"no token in secret">>),
               pc |-> AfterFailure("getDNSPod"), built |-> << >>]
         ELSE [loc |-> [l EXCEPT !.secret = secret, !.built = TRUE,
                                 !.cached = [ok |-> TRUE, Client |-> n + 1,
                                             SecretVersion |-> secret.ResourceVersion]],
               pc |-> "mapWrite",
               built |-> <<[LoginToken |-> <<secret.Data.id[1], ",", secret.Data.token[1]>>,
                            Format |-> "json",
                            BuiltFrom |-> secret.ResourceVersion]>>]
    ELSE [loc |-> Ok([l EXCEPT !.secret = secret, !.client = l.cached.Client],
                     "getDNSPod", 0),
          pc |-> "listDomains", built |-> << >>]

\* The locals of Present and CleanUp once getDNSPod has returned: those of
\* getDNSPod are gone, the client it returned is kept.
Left(l) ==
    [l EXCEPT !.cached = InitLoc.cached, !.secret = InitLoc.secret,
              !.read = InitLoc.read, !.built = FALSE, !.raced = FALSE,
              !.wraced = FALSE, !.prev = InitLoc.prev]

\* The loop of getDomainID: the first domain named like the zone, or the zero
\* Domain.
hostedDomain(domains, authZone) ==
    LET hits == {i \in 1..Len(domains) : domains[i].Name = UnFqdn(authZone)}
    IN  IF hits = {} THEN ZeroDomain
        ELSE domains[CHOOSE i \in hits : \A j \in hits : i <= j]

\* getDomainID after its two calls: the identifier as a string, or the error.
domainIDOf(hosted) ==
    IF hosted.ID = << >>
    THEN [id |-> << >>, err |-> <<"strconv.ParseInt: invalid syntax">>]
    ELSE IF hosted.ID[1] = 0
    THEN [id |-> << >>, err |-> <<"Zone not found in dnspod">>]
    ELSE [id |-> Itoa(hosted.ID[1]), err |-> NoErr]

\* The record Present sends.  Line is the provider's default line.
newTxtRecord(zone, fqdn, value, ttl) ==
    [Type |-> "TXT", Name |-> extractRecordName(fqdn, zone), Value |-> value,
     Line |-> "default", TTL |-> Itoa(ttl)]

\* A slip: the listing is filtered by the whole name instead.
findTxtRecordsFqdn(zone, fqdn) == UnFqdn(fqdn)

\* The name filter of findTxtRecords.
findTxtRecordsName(zone, fqdn) == extractRecordName(fqdn, zone)

\* The provider's ListRecords(domainID, recordName): the records of the
\* domain with that name.
Listing(domainID, recordName) ==
    {r \in records : r.Domain = domainID /\ r.Name = recordName}

\* The orders in which the provider may return a set of records: by
\* ascending or by descending identifier.
Orders(S) ==
    {s \in [1..Cardinality(S) -> S] :
        \/ \A i, j \in 1..Cardinality(S) : i < j => s[i].ID < s[j].ID
        \/ \A i, j \in 1..Cardinality(S) : i < j => s[i].ID > s[j].ID}

\* A slip: every listing error is returned.
listErrAlwaysReturned(err) == err # NoErr

\* `if err != nil && !strings.Contains(err.Error(), "No records")` in CleanUp.
listErrReturned(err) == err # NoErr /\ ~Contains(err, "No records")

\* A slip: every listed record is deleted.
toDeleteAny(record, key) == TRUE

\* `if record.Value != ch.Key { continue }` in CleanUp: the records of the
\* listing that are deleted.
toDelete(record, key) == record.Value = key

\* The index in todo of the next record that CleanUp's loop deletes, 0 when
\* the loop ends without another DeleteRecord.
nextToDelete(todo, key) ==
    LET hits == {i \in 1..Len(todo) : toDelete(todo[i], key)}
    IN  IF hits = {} THEN 0 ELSE CHOOSE i \in hits : \A j \in hits : i <= j

\* Where Present and CleanUp go after getDomainID.
recordStep(op) == IF op = "Present" THEN "createRecord" ELSE "listRecords"

----------------------------------------------------------------------------
(* The steps of Present (main.go:94-117) and CleanUp (main.go:125-158).    *)

\* The host calls Present or CleanUp with one of the requests chs, for at
\* most max invocations in all; the invocation decodes its config.
BeginOf(p, chs, max) ==
    /\ ~crashed
    /\ pc[p] = "idle"
    /\ started < max
    /\ \E op \in {"Present", "CleanUp"}, ch \in chs :
        LET r == loadConfig(ch.Config)
            l == [InitLoc EXCEPT !.op = op, !.ch = ch, !.cfg = r.cfg, !.snap = records]
        IN  IF r.err # NoErr
            THEN /\ pc' = [pc EXCEPT ![p] = AfterFailure("loadConfig")]
                 /\ loc' = [loc EXCEPT ![p] = Fail(l, "loadConfig", 0, r.err)]
            ELSE /\ pc' = [pc EXCEPT ![p] = "readCache"]
                 /\ loc' = [loc EXCEPT ![p] = Ok(l, "loadConfig", 0)]
    /\ started' = started + 1
    /\ UNCHANGED <<dnspod, clients, secrets, revision, records, nextRecordID,
                   lastRet, crashed, pureVars>>

\* getDNSPod: cached, ok := c.dnspod[secretFQN]
ReadCache(p) ==
    /\ ~crashed
    /\ pc[p] = "readCache"
    /\ CacheAccessAllowed(p)
    /\ \E c \in ReadOutcomes(p) :
        loc' = [loc EXCEPT ![p] = [@ EXCEPT !.cached = c, !.read = c,
                                            !.raced = Writers(p) # {}]]
    /\ pc' = [pc EXCEPT ![p] = "getSecret"]
    /\ UNCHANGED <<dnspod, clients, secrets, revision, records, nextRecordID,
                   lastRet, started, crashed, pureVars>>

\* getDNSPod: the secret fetch, the version check and the client build.
GetSecret(p) ==
    /\ ~crashed
    /\ pc[p] = "getSecret"
    /\ \E fetchErr \in {NoErr, <<"secrets get failed">>} :
        LET ref == secretRef(loc[p].cfg)
            found == fetchErr = NoErr /\ ref \in DOMAIN secrets
            r == getDNSPodFetched(loc[p],
                                  IF found THEN NoErr
                                  ELSE IF fetchErr # NoErr THEN fetchErr
                                  ELSE <<"secret not found">>,
                                  IF found THEN secrets[ref] ELSE ZeroSecret,
                                  Len(clients))
            key == secretFQN(loc[p].cfg)
            returned == r.pc = "listDomains"
        IN  /\ pc' = [pc EXCEPT ![p] = r.pc]
            /\ loc' = [loc EXCEPT ![p] =
                        IF returned
                        THEN [r.loc EXCEPT !.prev = IF key \in DOMAIN lastRet
                                                    THEN lastRet[key] ELSE ZeroCached]
                        ELSE r.loc]
            /\ clients' = clients \o r.built
            /\ lastRet' = IF returned
                          THEN Store(lastRet, key,
                                     [Client |-> r.loc.client,
                                      SecretVersion |-> r.loc.secret.ResourceVersion])
                          ELSE lastRet
    /\ UNCHANGED <<dnspod, secrets, revision, records, nextRecordID, started,
                   crashed, pureVars>>

\* getDNSPod: c.dnspod[secretFQN] = cached begins.
MapWriteBegin(p) ==
    /\ ~crashed
    /\ pc[p] = "mapWrite"
    /\ CacheAccessAllowed(p)
    /\ pc' = [pc EXCEPT ![p] = "mapWriting"]
    /\ loc' = [q \in Procs |->
                IF Writers(p) # {} /\ q \in Writers(p) \cup {p}
                THEN [loc[q] EXCEPT !.wraced = TRUE] ELSE loc[q]]
    /\ UNCHANGED <<dnspod, clients, secrets, revision, records, nextRecordID,
                   lastRet, started, crashed, pureVars>>

\* getDNSPod: c.dnspod[secretFQN] = cached ends, and getDNSPod returns
\* cached.Client.
MapWriteEnd(p) ==
    /\ ~crashed
    /\ pc[p] = "mapWriting"
    /\ LET key == secretFQN(loc[p].cfg)
           l == [loc[p] EXCEPT !.client = loc[p].cached.Client,
                               !.prev = IF key \in DOMAIN lastRet
                                        THEN lastRet[key] ELSE ZeroCached]
       IN  /\ \E e \in WriteOutcomes(p) : dnspod' = Store(dnspod, key, e)
           /\ loc' = [loc EXCEPT ![p] = Ok(l, "getDNSPod", 0)]
           /\ lastRet' = Store(lastRet, key,
                               [Client |-> l.client,
                                SecretVersion |-> l.secret.ResourceVersion])
    /\ pc' = [pc EXCEPT ![p] = "listDomains"]
    /\ UNCHANGED <<clients, secrets, revision, records, nextRecordID, started,
                   crashed, pureVars>>

\* An access to the map while another invocation's assignment to it is in
\* progress; the runtime detects it ("concurrent map read and map write",
\* "concurrent map writes") and stops the process.
RaceCrash(p) ==
    /\ ~crashed
    /\ pc[p] \in {"readCache", "mapWrite"}
    /\ CacheAccessAllowed(p)
    /\ Writers(p) # {}
    /\ crashed' = TRUE
    /\ UNCHANGED <<pc, loc, dnspod, clients, secrets, revision, records,
                   nextRecordID, lastRet, started, pureVars>>

\* getDomainID: client.Domains.List(), util.FindZoneByFqdn, then the match
\* against the domain list.  A nil client panics in the first call.  The
\* authoritative zone of a resolved zone is that zone.
GetDomainID(p) ==
    /\ ~crashed
    /\ pc[p] = "listDomains"
    /\ \E callErr \in {NoErr,
                        Errorf("dnspod API call failed: ", <<"request failed">>),
                        <<"could not find the start of authority">>} :
        LET l == Left(loc[p])
            d == domainIDOf(hostedDomain(ProviderDomains, l.ch.ResolvedZone))
            err == IF callErr # NoErr THEN callErr ELSE d.err
        IN  IF l.client = 0
            THEN /\ pc' = [pc EXCEPT ![p] = "done"]
                 /\ loc' = [loc EXCEPT ![p] =
                              Fail(l, "getDomainID", 0,
                                   <<"panic: nil pointer dereference">>)]
            ELSE IF err # NoErr
            THEN /\ pc' = [pc EXCEPT ![p] = AfterFailure("getDomainID")]
                 /\ loc' = [loc EXCEPT ![p] = Fail(l, "getDomainID", 0, err)]
            ELSE /\ pc' = [pc EXCEPT ![p] = recordStep(l.op)]
                 /\ loc' = [loc EXCEPT ![p] =
                              Ok([l EXCEPT !.domainID = d.id], "getDomainID", 0)]
    /\ UNCHANGED <<dnspod, clients, secrets, revision, records, nextRecordID,
                   lastRet, started, crashed, pureVars>>

\* Present: dnspodClient.Domains.CreateRecord(domainID, *recordAttributes)
CreateRecord(p) ==
    /\ ~crashed
    /\ pc[p] = "createRecord"
    /\ \E callErr \in {NoErr, <<"request failed">>} :
        LET l == loc[p]
            rec == newTxtRecord(l.ch.ResolvedZone, l.ch.ResolvedFQDN, l.ch.Key, l.cfg.TTL)
        IN  IF callErr # NoErr
            THEN /\ pc' = [pc EXCEPT ![p] = AfterFailure("CreateRecord")]
                 /\ loc' = [loc EXCEPT ![p] =
                              Fail(@, "CreateRecord", 0,
                                   Errorf("dnspod API call failed: ", callErr))]
                 /\ UNCHANGED <<records, nextRecordID>>
            ELSE /\ pc' = [pc EXCEPT ![p] = "done"]
                 /\ loc' = [loc EXCEPT ![p] = Ok(@, "CreateRecord", nextRecordID)]
                 /\ records' = records \cup
                        {Record(nextRecordID, l.domainID, rec.Name, rec.Value,
                                rec.TTL, l.ch)}
                 /\ nextRecordID' = nextRecordID + 1
    /\ UNCHANGED <<dnspod, clients, secrets, revision, lastRet, started, crashed,
                   pureVars>>

\* CleanUp: findTxtRecords and the check of its error.  The provider answers
\* with the records of that name in some order, with "No records" when there
\* are none, or with another error.
ListRecords(p) ==
    /\ ~crashed
    /\ pc[p] = "listRecords"
    /\ LET l == loc[p]
           found == Listing(l.domainID,
                            findTxtRecordsName(l.ch.ResolvedZone, l.ch.ResolvedFQDN))
           answers == {[list |-> s, err |-> NoErr, kind |-> "records"] : s \in Orders(found)}
                        \cup {[list |-> << >>, err |-> <<"request failed">>,
                               kind |-> "failure"]}
                        \cup (IF found = {}
                              THEN {[list |-> << >>,
                                     err |-> <<"No records">>,
                                     kind |-> "NoRecords"]}
                              ELSE {})
       IN  \E a \in answers :
            LET err == IF a.err # NoErr
                       THEN Errorf("dnspod API call has failed: ", a.err) ELSE NoErr
                m == [l EXCEPT !.listing = a.kind, !.todo = a.list]
            IN  IF listErrReturned(err)
                THEN /\ pc' = [pc EXCEPT ![p] = AfterFailure("ListRecords")]
                     /\ loc' = [loc EXCEPT ![p] = Fail(m, "ListRecords", 0, err)]
                ELSE /\ pc' = [pc EXCEPT ![p] =
                                IF nextToDelete(a.list, l.ch.Key) = 0
                                THEN "done" ELSE "deleteRecord"]
                     /\ loc' = [loc EXCEPT ![p] = Ok(m, "ListRecords", 0)]
    /\ UNCHANGED <<dnspod, clients, secrets, revision, records, nextRecordID,
                   lastRet, started, crashed, pureVars>>

\* CleanUp: the loop up to and including its next DeleteRecord call.
DeleteRecord(p) ==
    /\ ~crashed
    /\ pc[p] = "deleteRecord"
    /\ \E callErr \in {NoErr, <<"request failed">>} :
        LET l == loc[p]
            i == nextToDelete(l.todo, l.ch.Key)
            r == l.todo[i]
            rest == SubSeq(l.todo, i + 1, Len(l.todo))
        IN  IF callErr # NoErr
            THEN /\ pc' = [pc EXCEPT ![p] = AfterFailure("DeleteRecord")]
                 /\ loc' = [loc EXCEPT ![p] = Fail(@, "DeleteRecord", r.ID, callErr)]
                 /\ records' = records
            ELSE /\ pc' = [pc EXCEPT ![p] =
                            IF nextToDelete(rest, l.ch.Key) = 0
                            THEN "done" ELSE "deleteRecord"]
                 /\ loc' = [loc EXCEPT ![p] =
                              Ok([@ EXCEPT !.todo = rest], "DeleteRecord", r.ID)]
                 /\ records' = {x \in records :
                                    ~(x.Domain = l.domainID /\ x.ID = r.ID)}
    /\ UNCHANGED <<dnspod, clients, secrets, revision, nextRecordID, lastRet,
                   started, crashed, pureVars>>

\* Present or CleanUp has returned to the host.
Return(p) ==
    /\ ~crashed
    /\ pc[p] = "done"
    /\ pc' = [pc EXCEPT ![p] = "idle"]
    /\ loc' = [loc EXCEPT ![p] = InitLoc]
    /\ UNCHANGED <<dnspod, clients, secrets, revision, records, nextRecordID,
                   lastRet, started, crashed, pureVars>>

\* Someone updates one of the secrets refs in the cluster: new data (one of
\* datas), a new resource version.
UpdateSecretOf(refs, datas) ==
    /\ ~crashed
    /\ revision < MaxRevision
    /\ \E ref \in refs, d \in datas :
        secrets' = [secrets EXCEPT ![ref] =
                        [ResourceVersion |-> revision + 1, Data |-> d]]
    /\ revision' = revision + 1
    /\ UNCHANGED <<pc, loc, dnspod, clients, records, nextRecordID, lastRet,
                   started, crashed, pureVars>>

\* The data of the default secret is changed.
UpdateSecretData ==
    UpdateSecretOf({<<"default", "dnspod-credentials">>}, SecretData)

\* Invocations that do not overlap: the host begins one when none is running.
BeginAlone(p) ==
    /\ \A q \in Procs : pc[q] = "idle"
    /\ BeginOf(p, Challenges, MaxInvocations)

NextSeq ==
    \/ \E p \in Procs :
        \/ BeginAlone(p)
        \/ ReadCache(p)
        \/ GetSecret(p)
        \/ MapWriteBegin(p)
        \/ MapWriteEnd(p)
        \/ GetDomainID(p)
        \/ CreateRecord(p)
        \/ ListRecords(p)
        \/ DeleteRecord(p)
        \/ Return(p)
    \/ UpdateSecretData

SpecSeq == Init /\ [][NextSeq]_vars

\* Invocations that the host runs concurrently, all for one request.
ConcurrentChallenges ==
    {Challenge(<<"z", ".">>, <<"a", ".", "z", ".">>, "k1", NilJSON)}

Begin(p) == BeginOf(p, ConcurrentChallenges, MaxOverlapping)

\* The credentials of the default secret are rotated.
UpdateCredentials ==
    UpdateSecretOf({<<"default", "dnspod-credentials">>}, {Creds(<<"id2">>, <<"tok2">>)})

InitConcurrent ==
    /\ Idle
    /\ records = {}
    /\ nameIn = NoName
    /\ nameOut = << >>
    /\ cfgIn = NilJSON
    /\ cfgOut = << >>

\* What an invocation does once it has begun, and the secret's rotation.
Steps ==
    \/ \E p \in Procs :
        \/ ReadCache(p)
        \/ GetSecret(p)
        \/ MapWriteBegin(p)
        \/ MapWriteEnd(p)
        \/ RaceCrash(p)
        \/ GetDomainID(p)
        \/ CreateRecord(p)
        \/ ListRecords(p)
        \/ DeleteRecord(p)
        \/ Return(p)
    \/ UpdateCredentials

Next ==
    \/ \E p \in Procs : Begin(p)
    \/ Steps

Spec == InitConcurrent /\ [][Next]_vars

\* The same with one more invocation: long enough for the cache to be
\* filled, the secret rotated, and two invocations to meet at the cache.
BeginRotation(p) == BeginOf(p, ConcurrentChallenges, MaxInvocations)

NextRotation ==
    \/ \E p \in Procs : BeginRotation(p)
    \/ Steps

SpecRotation == InitConcurrent /\ [][NextRotation]_vars

----------------------------------------------------------------------------
(* Claims about the invocations.                                           *)

\* The record name the solver computes for an invocation's request.
NameOf(l) == extractRecordName(l.ch.ResolvedFQDN, l.ch.ResolvedZone)

\* The records of S that CleanUp's request is about: those of the domain,
\* under the request's record name, whose value is the request's key.
Matching(S, l) ==
    {r \in S : r.Domain = l.domainID /\ r.Name = NameOf(l) /\ r.Value = l.ch.Key}

CleanedUp(p) == pc[p] = "done" /\ loc[p].op = "CleanUp" /\ loc[p].err = NoErr

(* C1: when a CleanUp has returned without error, the provider holds the   *)
(* records it held when the CleanUp began except those under the request's *)
(* record name whose value is the request's key: every record with         *)
(* another value or under another name is still there, unchanged.          *)
C1_CleanUpDeletesExactly ==
    \A p \in Procs :
        CleanedUp(p) => records = loc[p].snap \ Matching(loc[p].snap, loc[p])

\* A CleanUp that deleted a record and left one of the same name with another
\* value and one under another name.
C1_Witness ==
    \E p \in Procs :
        /\ CleanedUp(p)
        /\ Matching(loc[p].snap, loc[p]) # {}
        /\ \E r \in records : r.Name = NameOf(loc[p]) /\ r.Value # loc[p].ch.Key
        /\ \E r \in records : r.Name # NameOf(loc[p])

(* C2: when a CleanUp has returned without error, no record created by a   *)
(* Present of the same challenge request is left at the provider, and no   *)
(* record with the request's key under the request's record name, however  *)
(* many times Present succeeded before.                                    *)
C2_PresentThenCleanUp ==
    \A p \in Procs :
        CleanedUp(p) =>
            /\ \A r \in records : r.Origin # loc[p].ch
            /\ Matching(records, loc[p]) = {}

\* A CleanUp that followed two successful Presents of the same request.
C2_Witness ==
    \E p \in Procs :
        /\ CleanedUp(p)
        /\ Cardinality({r \in loc[p].snap : r.Origin = loc[p].ch}) >= 2

DeleteCalls(l) == {i \in 1..Len(l.steps) : l.steps[i].step = "DeleteRecord"}

(* C3: a CleanUp for which the domain holds no record under the request's  *)
(* record name returns without error and without a DeleteRecord call, both *)
(* when the listing is empty and when it is a "No records" error; a        *)
(* CleanUp whose listing fails with any other error returns an error.      *)
C3_NothingToCleanUp ==
    \A p \in Procs :
        (pc[p] = "done" /\ loc[p].op = "CleanUp") =>
            /\ ( /\ loc[p].listing \in {"records", "NoRecords"}
                 /\ {r \in loc[p].snap : r.Domain = loc[p].domainID
                                            /\ r.Name = NameOf(loc[p])} = {} )
                    => (loc[p].err = NoErr /\ DeleteCalls(loc[p]) = {})
            /\ loc[p].listing = "failure" => loc[p].err # NoErr

\* A CleanUp whose listing was answered with "No records".
C3_Witness ==
    \E p \in Procs :
        /\ pc[p] = "done"
        /\ loc[p].op = "CleanUp"
        /\ loc[p].listing = "NoRecords"
        /\ loc[p].err = NoErr

(* C4: when getDNSPod has returned a client, it built one exactly if the   *)
(* cache held no entry for the key or the entry's version differed from    *)
(* the fetched secret's; a built client is new and is stored with the      *)
(* fetched version, a client that was not built is the instance read from  *)
(* the cache; after a call that returned for the same key, an unchanged    *)
(* secret version gives the same instance without a build and a changed    *)
(* version gives a build.                                                  *)
C4_RebuildIffStale ==
    \A p \in Procs :
        pc[p] = "listDomains" =>
            LET l == loc[p]
                key == secretFQN(l.cfg)
                stale == ~l.read.ok \/ l.read.SecretVersion # l.secret.ResourceVersion
            IN  /\ l.built <=> stale
                /\ l.built =>
                    /\ l.client = Len(clients)
                    /\ l.client # l.read.Client
                    /\ key \in DOMAIN dnspod
                    /\ dnspod[key] = [Client |-> l.client,
                                      SecretVersion |-> l.secret.ResourceVersion]
                /\ ~l.built => l.client = l.read.Client
                /\ (l.prev.Client # 0 /\ l.prev.SecretVersion = l.secret.ResourceVersion)
                    => (~l.built /\ l.client = l.prev.Client)
                /\ (l.prev.Client # 0 /\ l.prev.SecretVersion # l.secret.ResourceVersion)
                    => (l.built /\ l.client # l.prev.Client)

\* The client built after the secret changed is returned again, unbuilt, by
\* the next call.
C4_Witness ==
    \E p \in Procs :
        /\ pc[p] = "listDomains"
        /\ ~loc[p].built
        /\ loc[p].client = 2
        /\ loc[p].prev = [Client |-> 2, SecretVersion |-> loc[p].secret.ResourceVersion]

\* The steps of an invocation in the order of the code.
StepOrder(op) ==
    IF op = "Present"
    THEN <<"loadConfig", "getDNSPod", "getDomainID", "CreateRecord">>
    ELSE <<"loadConfig", "getDNSPod", "getDomainID", "ListRecords">>

C9_NoMutualExclusion ==
    \A p \in Procs : \A q \in Procs \ {p} :
        (~crashed /\ pc[p] = "mapWriting") =>
            /\ pc[q] = "readCache" => ENABLED ReadCache(q)
            /\ pc[q] = "mapWrite" => ENABLED MapWriteBegin(q)

\* An invocation has read the map during another's assignment to it, and that
\* assignment is still in progress.
C9_Witness ==
    \E p \in Procs : \E q \in Procs \ {p} :
        /\ pc[p] = "mapWriting"
        /\ pc[q] = "getSecret"
        /\ loc[q].raced

(* C10: a client that getDNSPod returns was built from the secret version  *)
(* that the same call fetched.                                             *)
C10_ClientOfFetchedVersion ==
    \A p \in Procs :
        (pc[p] = "listDomains" /\ loc[p].client # 0) =>
            clients[loc[p].client].BuiltFrom = loc[p].secret.ResourceVersion

----------------------------------------------------------------------------
(* The inputs of the two specifications of pure functions. *)

SecretNames == {"dnspod-credentials", "my-secret"}
Namespaces == {"default", "cert-manager"}
TTLs == {60, 600}

Opt(S) == {<< >>} \cup {<<x>> : x \in S}

SecretRefValues ==
    {JAbsent, JNull, JStr("my-secret")}
        \cup {JObj(nm, ns) : nm \in Opt(SecretNames), ns \in Opt(Namespaces)}

TTLValues == {JAbsent, JNull, JStr("600")} \cup {JNum(t) : t \in TTLs}

ConfigDocs ==
    {NilJSON, MalformedJSON, NullJSON}
        \cup {ObjectJSON(sec, ttl) : sec \in SecretRefValues, ttl \in TTLValues}

InitName ==
    /\ nameIn \in [fqdn : DnsNames(MaxFqdnLen), zone : DnsNames(MaxZoneLen)]
    /\ nameOut = << >>
    /\ cfgIn = NilJSON
    /\ cfgOut = << >>
    /\ Idle
    /\ records = {}

\* newTxtRecord and findTxtRecords both begin with this call.
ComputeName ==
    /\ nameOut = << >>
    /\ nameOut' = <<extractRecordName(nameIn.fqdn, nameIn.zone)>>
    /\ UNCHANGED <<nameIn, cfgIn, cfgOut, solverVars>>

NextName == ComputeName

SpecName == InitName /\ [][NextName]_vars

InitConfig ==
    /\ cfgIn \in ConfigDocs
    /\ cfgOut = << >>
    /\ nameIn = NoName
    /\ nameOut = << >>
    /\ Idle
    /\ records = {}

\* Present and CleanUp both begin with this call.
DecodeConfig ==
    /\ cfgOut = << >>
    /\ cfgOut' = <<loadConfig(cfgIn)>>
    /\ UNCHANGED <<nameIn, nameOut, cfgIn, solverVars>>

NextConfig == DecodeConfig

SpecConfig == InitConfig /\ [][NextConfig]_vars

----------------------------------------------------------------------------
(* C6: for every FQDN f and zone z such that f ends with "." + z, the      *)
(* computed record name is f without that trailing "." + z, also when      *)
(* "." + z occurs earlier inside f.                                        *)
C6_SuffixRemoved ==
    LET f == nameIn.fqdn
        sep == <<".">> \o nameIn.zone
    IN  (nameOut # << >> /\ HasSuffix(f, sep))
            => nameOut[1] = SubSeq(f, 1, Len(f) - Len(sep))

(* C7: for every FQDN f and zone z such that f does not end with "." + z,  *)
(* the computed record name is f with a single trailing "." stripped, also *)
(* when "." + z occurs in the middle of f.                                 *)
C7_NoSuffixUnFqdn ==
    LET f == nameIn.fqdn
        sep == <<".">> \o nameIn.zone
    IN  (nameOut # << >> /\ ~HasSuffix(f, sep))
            => nameOut[1] = (IF Len(f) > 0 /\ f[Len(f)] = "."
                             THEN SubSeq(f, 1, Len(f) - 1) ELSE f)

(* C5: decoding a well-formed document that supplies apiTokenSecret.name,  *)
(* apiTokenSecret.namespace and ttl yields exactly the supplied secret     *)
(* name, secret namespace and TTL.                                         *)
C5_OverlayAllKeys ==
    (/\ cfgOut # << >>
     /\ cfgIn.kind = "object"
     /\ cfgIn.apiTokenSecret.t = "obj"
     /\ cfgIn.apiTokenSecret.name # << >>
     /\ cfgIn.apiTokenSecret.namespace # << >>
     /\ cfgIn.ttl.t = "num")
        => /\ cfgOut[1].err = NoErr
           /\ cfgOut[1].cfg.APITokenSecret.name = cfgIn.apiTokenSecret.name[1]
           /\ cfgOut[1].cfg.APITokenSecret.namespace = cfgIn.apiTokenSecret.namespace[1]
           /\ cfgOut[1].cfg.TTL = cfgIn.ttl.n

====
